---- MODULE Spec2Model ----
(***************************************************************************)
(* Content libraries (openedx/core/djangoapps/content_libraries/models.py) *)
(* and the course-goal unsubscribe token (course_goals migration 0007).    *)
(*                                                                         *)
(* Tables are sequences of rows; the index of a row is its AutoField       *)
(* primary key.  Floats are fixed-point tenths (10 is 1.0).  The database  *)
(* runs in Django's default autocommit mode: every save() is one atomic,   *)
(* immediately visible statement.                                          *)
(***************************************************************************)
EXTENDS Integers, Sequences, FiniteSets, TLC

VARIABLES libs, perms, goals, tasks, now, pc, self, err, raised, inst,
          started, saved, lastCall

vars == << libs, perms, goals, tasks, now, pc, self, err, raised, inst,
           started, saved, lastCall >>

libVars  == << libs >>
permVars == << perms >>
goalVars == << goals >>
taskVars == << tasks, now, pc, self, err, raised, inst, started, saved >>

(***************************************************************************)
(* Bounds of the model.                                                    *)
(***************************************************************************)
MaxLibraries   == 2
MaxPermissions == 2
MaxGoals       == 3
MaxTasks       == 1
MaxExecutions  == 2
MaxTime        == 1

Null == "NULL"

Orgs   == {"orgA", "orgB"}
Slugs  == {"lib1", "lib2"}
UUIDs  == {"uuid1", "uuid2", "uuid3"}
Users  == {"alice", "bob"}
Groups == {"staff"}

\* The result of a call that raised nothing.
NoException == "none"

\* The last write asked of the library, permission and goal tables: the
\* call, what it raised and the primary key of the row it wrote.
Called(op, exc, pk) == [op |-> op, exc |-> exc, pk |-> pk]

(***************************************************************************)
(* ContentLibrary                                                          *)
(***************************************************************************)
ContentLibrary == [org : Orgs, slug : Slugs, bundle_uuid : UUIDs]

\* bundle_uuid declared without unique=True.
BundleUuidNotUnique(table, pk, row) == TRUE

\* bundle_uuid = UUIDField(unique=True): no other row holds row's uuid.
BundleUuidUnique(table, pk, row) ==
    \A j \in DOMAIN table : j # pk => table[j].bundle_uuid # row.bundle_uuid

\* Meta.unique_together = ("org", "slug").
OrgSlugUnique(table, pk, row) ==
    \A j \in DOMAIN table :
        j # pk => ~(table[j].org = row.org /\ table[j].slug = row.slug)

\* The storage engine accepts the write of row under primary key pk.
ContentLibraryWriteOk(table, pk, row) ==
    BundleUuidUnique(table, pk, row) /\ OrgSlugUnique(table, pk, row)

\* ContentLibrary.objects.create(org=, slug=, bundle_uuid=)
ContentLibrary_create(row) ==
    /\ Len(libs) < MaxLibraries
    /\ IF ContentLibraryWriteOk(libs, 0, row)
         THEN /\ libs' = Append(libs, row)
              /\ lastCall' = Called("ContentLibrary.create", NoException, Len(libs) + 1)
         ELSE /\ libs' = libs
              /\ lastCall' = Called("ContentLibrary.create", "IntegrityError", 0)
    /\ UNCHANGED << permVars, goalVars, taskVars >>

\* save() of an already stored ContentLibrary whose fields were reassigned.
ContentLibrary_save(pk, row) ==
    /\ pk \in DOMAIN libs
    /\ IF ContentLibraryWriteOk(libs, pk, row)
         THEN /\ libs' = [libs EXCEPT ![pk] = row]
              /\ lastCall' = Called("ContentLibrary.save", NoException, pk)
         ELSE /\ libs' = libs
              /\ lastCall' = Called("ContentLibrary.save", "IntegrityError", 0)
    /\ UNCHANGED << permVars, goalVars, taskVars >>

(***************************************************************************)
(* ContentLibraryPermission                                                *)
(***************************************************************************)
ADMIN_LEVEL  == "admin"
AUTHOR_LEVEL == "author"
READ_LEVEL   == "read"
ACCESS_LEVEL_CHOICES == {ADMIN_LEVEL, AUTHOR_LEVEL, READ_LEVEL}

\* A grant as the caller built it: user and group are nullable.
ContentLibraryPermission ==
    [library : DOMAIN libs, user : Users \cup {Null}, group : Groups \cup {Null},
     access_level : ACCESS_LEVEL_CHOICES]

\* The check written as "neither is set" only.
UserGroupBothUnset(row) == row.user = Null /\ row.group = Null

\* if (not self.user) == (not self.group): raise ValidationError
UserGroupInvalid(row) == (row.user = Null) = (row.group = Null)

\* Meta.unique_together = [('library', 'user'), ('library', 'group')];
\* a NULL never equals a NULL in a unique index.
PermissionWriteOk(table, pk, row) ==
    \A j \in DOMAIN table :
        j # pk =>
            /\ ~(table[j].library = row.library /\ row.user # Null
                    /\ table[j].user = row.user)
            /\ ~(table[j].library = row.library /\ row.group # Null
                    /\ table[j].group = row.group)

\* ContentLibraryPermission.save(); pk = 0 is an instance not stored yet.
ContentLibraryPermission_save(pk, row) ==
    /\ pk \in DOMAIN perms \/ (pk = 0 /\ Len(perms) < MaxPermissions)
    /\ IF UserGroupInvalid(row)
         THEN /\ perms' = perms
              /\ lastCall' = Called("ContentLibraryPermission.save", "ValidationError", 0)
         ELSE IF ~PermissionWriteOk(perms, pk, row)
         THEN /\ perms' = perms
              /\ lastCall' = Called("ContentLibraryPermission.save", "IntegrityError", 0)
         ELSE IF pk = 0
         THEN /\ perms' = Append(perms, row)
              /\ lastCall' = Called("ContentLibraryPermission.save", NoException, Len(perms) + 1)
         ELSE /\ perms' = [perms EXCEPT ![pk] = row]
              /\ lastCall' = Called("ContentLibraryPermission.save", NoException, pk)
    /\ UNCHANGED << libVars, goalVars, taskVars >>

(***************************************************************************)
(* CourseGoal.unsubscribe_token                                            *)
(***************************************************************************)
GoalKeys == {"certify", "explore"}

\* default=uuid.uuid4: a fresh random value; a collision is not excluded.
uuid4 == UUIDs

\* unsubscribe_token declared without unique=True.
UnsubscribeTokenNotUnique(table, pk, token) == TRUE

\* unique=True, null=True: NULLs do not collide.
UnsubscribeTokenUnique(table, pk, token) ==
    \A j \in DOMAIN table : j # pk => (token = Null \/ table[j].unsubscribe_token # token)

\* Creation of a CourseGoal row; the token is the field default, or the
\* NULL that null=True admits (rows that predate the field).
CourseGoal_create(key, token) ==
    /\ Len(goals) < MaxGoals
    /\ IF UnsubscribeTokenUnique(goals, 0, token)
         THEN /\ goals' = Append(goals, [goal_key |-> key, unsubscribe_token |-> token])
              /\ lastCall' = Called("CourseGoal.create", NoException, Len(goals) + 1)
         ELSE /\ goals' = goals
              /\ lastCall' = Called("CourseGoal.create", "IntegrityError", 0)
    /\ UNCHANGED << libVars, permVars, taskVars >>

\* Update of a goal through its editable fields; editable=False keeps
\* unsubscribe_token out of them.
CourseGoal_update(pk, key) ==
    /\ pk \in DOMAIN goals
    /\ goals' = [goals EXCEPT ![pk].goal_key = key]
    /\ lastCall' = Called("CourseGoal.update", NoException, pk)
    /\ UNCHANGED << libVars, permVars, taskVars >>

(***************************************************************************)
(* ContentLibraryBlockImportTask                                           *)
(***************************************************************************)
TASK_CREATED    == "created"
TASK_PENDING    == "pending"
TASK_RUNNING    == "running"
TASK_FAILED     == "failed"
TASK_SUCCESSFUL == "successful"
TASK_STATE_CHOICES ==
    {TASK_CREATED, TASK_PENDING, TASK_RUNNING, TASK_FAILED, TASK_SUCCESSFUL}

CourseIds == {"course-v1:edX+DemoX+2021"}

\* Workers that run execute blocks, and code that loads a task by itself.
Workers == {"w1", "w2"}
Readers == {"r1"}

\* Arguments of save_progress, in tenths: 0.5 and 1.5.
ProgressArgs == {5, 15}

\* What the wrapped work may raise.
Errors == {"ImportError", "KeyboardInterrupt"}

\* No instance loaded.
NoInstance == [pk |-> 0]

\* The columns of the table.
AllFields == {"library", "course_id", "created_at", "updated_at", "state", "progress"}

\* The in-memory instance of row pk, as objects.get(pk=pk) builds it.  Its
\* updated_at is left out: auto_now overwrites it before every write of the
\* column, so the loaded value is never used.
objects_get(table, pk) ==
    [pk |-> pk, library |-> table[pk].library, course_id |-> table[pk].course_id,
     created_at |-> table[pk].created_at,
     state |-> table[pk].state, progress |-> table[pk].progress]

\* auto_now: the value written to column f of the instance at time t.
pre_save(instance, f, t) ==
    IF f = "updated_at" THEN t ELSE instance[f]

\* Model.save(update_fields=fields) of a stored instance: an UPDATE of
\* exactly these columns of row instance.pk.
Model_save(table, instance, fields, t) ==
    [table EXCEPT ![instance.pk] =
        [f \in AllFields |->
            IF f \in fields THEN pre_save(instance, f, t)
                            ELSE table[instance.pk][f]]]

\* save_progress written as a plain self.save().
save_progress_full_save == AllFields

\* The columns save_progress passes as update_fields.
save_progress_fields == {"progress", "updated_at"}

\* save_progress(progress): the instance and the table after the call.
save_progress(table, instance, progress, t) ==
    LET i == [instance EXCEPT !.progress = progress]
    IN  [instance |-> i,
         table    |-> Model_save(table, i, save_progress_fields, t)]

\* The running state assigned but not saved before the yield.
execute_mark_running_unsaved(table, instance, t) == table

\* self.state = self.TASK_RUNNING; self.save()
execute_mark_running(table, instance, t) ==
    Model_save(table, [instance EXCEPT !.state = TASK_RUNNING], AllFields, t)

\* The except clause left out: successful whatever the work raised.
execute_final_state_no_except(e) == TASK_SUCCESSFUL

\* The state execute assigns when the block ends with exception e.
execute_final_state(e) ==
    IF e = NoException THEN TASK_SUCCESSFUL ELSE TASK_FAILED

\* How many execute calls were made so far, over all tasks.
RECURSIVE Executions(_)
Executions(counts) ==
    IF counts = << >> THEN 0 ELSE Head(counts) + Executions(Tail(counts))

\* Time passes.
Tick ==
    /\ now < MaxTime
    /\ now' = now + 1
    /\ UNCHANGED << libVars, permVars, goalVars, tasks, pc, self, err, raised,
                    inst, started, saved, lastCall >>

\* ContentLibraryBlockImportTask.objects.create(library=, course_id=)
ContentLibraryBlockImportTask_create(library, course_id) ==
    /\ Len(tasks) < MaxTasks
    /\ library \in DOMAIN libs
    /\ tasks' = Append(tasks, [library |-> library, course_id |-> course_id,
                               created_at |-> now, updated_at |-> now,
                               state |-> TASK_CREATED, progress |-> 0])
    /\ started' = Append(started, 0)
    /\ UNCHANGED << libVars, permVars, goalVars, now, pc, self, err, raised,
                    inst, saved, lastCall >>

\* execute, line 196: self = cls.objects.get(pk=import_task_id), for a task
\* that exists (for any other id get raises DoesNotExist and nothing changes).
execute_get(w, import_task_id) ==
    /\ pc[w] \in {"idle", "returned"}
    /\ import_task_id \in DOMAIN tasks
    /\ Executions(started) < MaxExecutions
    /\ self' = [self EXCEPT ![w] = objects_get(tasks, import_task_id)]
    /\ pc' = [pc EXCEPT ![w] = "got"]
    /\ started' = [started EXCEPT ![import_task_id] = @ + 1]
    /\ raised' = [raised EXCEPT ![w] = NoException]
    /\ UNCHANGED << libVars, permVars, goalVars, tasks, now, err, inst, saved,
                    lastCall >>

\* execute, lines 197-200: mark running, save, yield self.
execute_enter(w) ==
    /\ pc[w] = "got"
    /\ self' = [self EXCEPT ![w].state = TASK_RUNNING]
    /\ tasks' = execute_mark_running(tasks, self[w], now)
    /\ pc' = [pc EXCEPT ![w] = "work"]
    /\ UNCHANGED << libVars, permVars, goalVars, now, err, raised, inst,
                    started, saved, lastCall >>

\* Value v was persisted by save_progress on task pk: noted for every
\* worker whose wrapped work on that task is in progress.
NoteSaved(pk, v) ==
    [w \in Workers |->
        IF pc[w] = "work" /\ self[w].pk = pk THEN {v} ELSE saved[w]]

\* The wrapped work reports progress on the instance execute yielded.
work_save_progress(w, progress) ==
    /\ pc[w] = "work"
    /\ self' = [self EXCEPT ![w] = save_progress(tasks, @, progress, now).instance]
    /\ tasks' = save_progress(tasks, self[w], progress, now).table
    /\ saved' = NoteSaved(self[w].pk, progress)
    /\ UNCHANGED << libVars, permVars, goalVars, now, pc, err, raised, inst,
                    started, lastCall >>

\* The wrapped work ends: normally, or by raising e.
work_ends(w, e) ==
    /\ pc[w] = "work"
    /\ err' = [err EXCEPT ![w] = e]
    /\ pc' = [pc EXCEPT ![w] = "exit"]
    /\ UNCHANGED << libVars, permVars, goalVars, tasks, now, self, raised,
                    inst, started, saved, lastCall >>

\* execute, lines 201-206: set the final state, save, return or re-raise.
execute_exit(w) ==
    /\ pc[w] = "exit"
    /\ self' = [self EXCEPT ![w].state = execute_final_state(err[w])]
    /\ tasks' = Model_save(tasks,
                           [self[w] EXCEPT !.state = execute_final_state(err[w])],
                           AllFields, now)
    /\ raised' = [raised EXCEPT ![w] = err[w]]
    /\ err' = [err EXCEPT ![w] = NoException]
    /\ pc' = [pc EXCEPT ![w] = "returned"]
    /\ saved' = [saved EXCEPT ![w] = {}]
    /\ UNCHANGED << libVars, permVars, goalVars, now, inst, started, lastCall >>

\* Other code loads the task row by itself.
reader_get(r, pk) ==
    /\ pk \in DOMAIN tasks
    /\ inst' = [inst EXCEPT ![r] = objects_get(tasks, pk)]
    /\ UNCHANGED << libVars, permVars, goalVars, tasks, now, pc, self, err,
                    raised, started, saved, lastCall >>

\* ... and reports progress on the instance it loaded.
reader_save_progress(r, progress) ==
    /\ inst[r] # NoInstance
    /\ inst' = [inst EXCEPT ![r] = save_progress(tasks, @, progress, now).instance]
    /\ tasks' = save_progress(tasks, inst[r], progress, now).table
    /\ saved' = NoteSaved(inst[r].pk, progress)
    /\ UNCHANGED << libVars, permVars, goalVars, now, pc, self, err, raised,
                    started, lastCall >>

(***************************************************************************)
(* Specifications                                                          *)
(***************************************************************************)
\* Two libraries already stored, for the tables that refer to them.
SeedLibraries ==
    << [org |-> "orgA", slug |-> "lib1", bundle_uuid |-> "uuid1"],
       [org |-> "orgB", slug |-> "lib1", bundle_uuid |-> "uuid2"] >>

InitRest ==
    /\ perms = << >>
    /\ goals = << >>
    /\ tasks = << >>
    /\ now = 0
    /\ pc = [w \in Workers |-> "idle"]
    /\ self = [w \in Workers |-> NoInstance]
    /\ err = [w \in Workers |-> NoException]
    /\ raised = [w \in Workers |-> NoException]
    /\ inst = [r \in Readers |-> NoInstance]
    /\ started = << >>
    /\ saved = [w \in Workers |-> {}]
    /\ lastCall = Called("none", NoException, 0)

\* The import tasks of a stored library.
Init == libs = SubSeq(SeedLibraries, 1, 1) /\ InitRest

Next ==
    \/ Tick
    \/ \E l \in DOMAIN libs, c \in CourseIds : ContentLibraryBlockImportTask_create(l, c)
    \/ \E w \in Workers, pk \in DOMAIN tasks : execute_get(w, pk)
    \/ \E w \in Workers : execute_enter(w)
    \/ \E w \in Workers, v \in ProgressArgs : work_save_progress(w, v)
    \/ \E w \in Workers, e \in Errors \cup {NoException} : work_ends(w, e)
    \/ \E w \in Workers : execute_exit(w)
    \/ \E r \in Readers, pk \in DOMAIN tasks : reader_get(r, pk)
    \/ \E r \in Readers, v \in ProgressArgs : reader_save_progress(r, v)

Spec == Init /\ [][Next]_vars

\* The library table, from empty.
InitLibrary == libs = << >> /\ InitRest

NextLibrary ==
    \/ \E row \in ContentLibrary : ContentLibrary_create(row)
    \/ \E pk \in DOMAIN libs, row \in ContentLibrary : ContentLibrary_save(pk, row)

SpecLibrary == InitLibrary /\ [][NextLibrary]_vars

\* The permission grants of the stored libraries.
NextPermission ==
    \E pk \in 0..MaxPermissions, row \in ContentLibraryPermission :
        ContentLibraryPermission_save(pk, row)

InitPermission == libs = SeedLibraries /\ InitRest

SpecPermission == InitPermission /\ [][NextPermission]_vars

\* The course goals.
NextGoal ==
    \/ \E k \in GoalKeys, t \in uuid4 \cup {Null} : CourseGoal_create(k, t)
    \/ \E pk \in DOMAIN goals, k \in GoalKeys : CourseGoal_update(pk, k)

SpecGoal == Init /\ [][NextGoal]_vars

(***************************************************************************)
(* Properties                                                              *)
(***************************************************************************)
ExactlyOneSet(row) ==
    \/ row.user # Null /\ row.group = Null
    \/ row.user = Null /\ row.group # Null

\* Another stored grant of the same library names row's user or group.
DuplicateGrant(table, pk, row) ==
    \E j \in DOMAIN table :
        /\ j # pk
        /\ table[j].library = row.library
        /\ \/ row.user # Null /\ table[j].user = row.user
           \/ row.group # Null /\ table[j].group = row.group

\* The step stored row: appended under a fresh key when pk = 0, else in
\* place of row pk; every other row is as before.
PermissionWritten(pk, row) ==
    LET k == IF pk = 0 THEN Len(perms) + 1 ELSE pk
    IN  /\ lastCall'.exc = NoException
        /\ lastCall'.pk = k
        /\ DOMAIN perms' = DOMAIN perms \cup {k}
        /\ perms'[k] = row
        /\ \A j \in DOMAIN perms : j # k => perms'[j] = perms[j]

\* C1, as stated: save raises ValidationError and writes nothing when
\* neither or both of user and group are set, and writes the row whenever
\* exactly one is set.
C1_SaveWritesIffExactlyOne ==
    [][\A pk \in 0..MaxPermissions, row \in ContentLibraryPermission :
          ContentLibraryPermission_save(pk, row) =>
              IF ExactlyOneSet(row)
                THEN PermissionWritten(pk, row)
                ELSE lastCall'.exc = "ValidationError" /\ perms' = perms]_vars

\* C1, amended: save raises ValidationError and writes nothing exactly when
\* neither or both of user and group are set; when exactly one is set the
\* row is written, unless another grant of the same library already names
\* that user or group: then the write fails with IntegrityError and the
\* stored rows are unchanged too.
C1_SaveValidatesUserXorGroup ==
    [][\A pk \in 0..MaxPermissions, row \in ContentLibraryPermission :
          ContentLibraryPermission_save(pk, row) =>
              IF ~ExactlyOneSet(row)
                THEN lastCall'.exc = "ValidationError" /\ perms' = perms
              ELSE IF DuplicateGrant(perms, pk, row)
                THEN lastCall'.exc = "IntegrityError" /\ perms' = perms
              ELSE PermissionWritten(pk, row)]_vars

\* A grant is stored and the last save was refused by the validation.
C1_Witness ==
    /\ Len(perms) >= 1
    /\ \A j \in DOMAIN perms : ExactlyOneSet(perms[j])
    /\ lastCall.op = "ContentLibraryPermission.save"
    /\ lastCall.exc = "ValidationError"

\* The persisted state changes of a task that the lifecycle allows.
LifecycleSteps ==
    { << TASK_CREATED, TASK_RUNNING >>, << TASK_RUNNING, TASK_FAILED >>,
      << TASK_RUNNING, TASK_SUCCESSFUL >> }

\* C2: the persisted state of every task only ever moves created -> running
\* -> failed or successful; each change is one of these steps.
C2_StateSequence ==
    [][\A t \in DOMAIN tasks :
          tasks'[t].state # tasks[t].state =>
              << tasks[t].state, tasks'[t].state >> \in LifecycleSteps]_vars

\* C3: when an execute block exits, the step that returns control has
\* persisted successful if the work raised nothing, failed otherwise, and
\* hands the caller the very exception the work raised.
C3_ExitPersistsFinalState ==
    [][\A w \in Workers :
          pc[w] = "exit" /\ pc'[w] = "returned" =>
              /\ tasks'[self[w].pk].state =
                    (IF err[w] = NoException THEN TASK_SUCCESSFUL ELSE TASK_FAILED)
              /\ raised'[w] = err[w]]_vars

\* A block has exited by re-raising an error of the work, the row is failed.
C3_Witness ==
    \E w \in Workers :
        /\ pc[w] = "returned"
        /\ raised[w] \in Errors
        /\ tasks[self[w].pk].state = TASK_FAILED

\* Row pk differs from before in progress and updated_at at most, and every
\* other row not at all.
OnlyProgressWritten(pk) ==
    /\ DOMAIN tasks' = DOMAIN tasks
    /\ \A t \in DOMAIN tasks :
          IF t = pk
            THEN \A f \in {"state", "library", "course_id", "created_at"} :
                    tasks'[t][f] = tasks[t][f]
            ELSE tasks'[t] = tasks[t]

\* C4: save_progress leaves the persisted state, library, course_id and
\* created_at of the row as they were, whoever calls it and whatever state
\* the calling instance holds in memory.
C4_SaveProgressKeepsState ==
    [][/\ \A w \in Workers, v \in ProgressArgs :
            work_save_progress(w, v) => OnlyProgressWritten(self[w].pk)
       /\ \A r \in Readers, v \in ProgressArgs :
            reader_save_progress(r, v) => OnlyProgressWritten(inst[r].pk)]_vars

\* A reader that loaded the task as created has saved progress 0.5 after a
\* worker marked it running: the row holds the reader's progress and the
\* worker's state.
C4_Witness ==
    \E r \in Readers, w \in Workers :
        /\ inst[r] # NoInstance
        /\ pc[w] = "work"
        /\ self[w].pk = inst[r].pk
        /\ inst[r].state = TASK_CREATED
        /\ inst[r].progress = 5
        /\ self[w].progress = 0
        /\ tasks[inst[r].pk].state = TASK_RUNNING
        /\ tasks[inst[r].pk].progress = 5

\* No two rows share (org, slug), no two share bundle_uuid.
LibraryKeysUnique(table) ==
    \A i, j \in DOMAIN table :
        i # j => /\ ~(table[i].org = table[j].org /\ table[i].slug = table[j].slug)
                 /\ table[i].bundle_uuid # table[j].bundle_uuid

\* Row would repeat the (org, slug) or the bundle_uuid of a row other than pk.
DuplicateLibrary(table, pk, row) ==
    \E j \in DOMAIN table :
        /\ j # pk
        /\ \/ table[j].org = row.org /\ table[j].slug = row.slug
           \/ table[j].bundle_uuid = row.bundle_uuid

\* C5: after every creation or update the rows of ContentLibrary have
\* pairwise distinct (org, slug) and pairwise distinct bundle_uuid, and a
\* write that would repeat one is rejected and leaves the table as it was.
C5_LibraryKeysUnique ==
    [][/\ LibraryKeysUnique(libs')
       /\ \A row \in ContentLibrary :
            ContentLibrary_create(row) /\ DuplicateLibrary(libs, 0, row) =>
                lastCall'.exc = "IntegrityError" /\ libs' = libs
       /\ \A pk \in DOMAIN libs, row \in ContentLibrary :
            ContentLibrary_save(pk, row) /\ DuplicateLibrary(libs, pk, row) =>
                lastCall'.exc = "IntegrityError" /\ libs' = libs]_vars

\* Two libraries are stored and the last write was rejected as a duplicate.
C5_Witness ==
    /\ Len(libs) = 2
    /\ lastCall.op \in {"ContentLibrary.create", "ContentLibrary.save"}
    /\ lastCall.exc = "IntegrityError"

\* C6: the persisted progress of every task is within 0.0 .. 1.0.
C6_ProgressInRange ==
    \A t \in DOMAIN tasks : 0 <= tasks[t].progress /\ tasks[t].progress <= 10

C8_RunningWhileWorking ==
    \A w \in Workers :
        pc[w] = "work" /\ started[self[w].pk] = 1 =>
            tasks[self[w].pk].state = TASK_RUNNING

\* The only execution of a task is at work and progress has been saved.
C8_Witness ==
    \E w \in Workers :
        /\ pc[w] = "work"
        /\ started[self[w].pk] = 1
        /\ tasks[self[w].pk].progress = 5
        /\ tasks[self[w].pk].state = TASK_RUNNING

\* C9: once the persisted state of a task is failed or successful, no step
\* changes it.
C9_TerminalStatesFinal ==
    [][\A t \in DOMAIN tasks :
          tasks[t].state \in {TASK_FAILED, TASK_SUCCESSFUL} =>
              tasks'[t].state = tasks[t].state]_vars

\* C10: the progress last persisted by a save_progress call made while a
\* worker's execute block was open is the persisted progress right after
\* that block has exited.
C10_ProgressSurvivesExit ==
    [][\A w \in Workers :
          pc[w] = "exit" /\ pc'[w] = "returned" /\ saved[w] # {} =>
              saved[w] = {tasks'[self[w].pk].progress}]_vars

====
